---- MODULE Spec2Model ----
(***************************************************************************)
(* The IfConfigInfo action of the Stream Deck plugin                       *)
(* (src/src/actions/ifconfig-info.ts): one key, its settings as the host   *)
(* persists them, the title the key shows, and the three event handlers    *)
(* with the delayed refresh callback that a press arms.                    *)
(*                                                                         *)
(* Every step is one synchronous run of a handler, from the delivery of    *)
(* the event (or the resumption after an await) to the next await.  A host *)
(* call (setTitle, setSettings, showOk, openUrl) takes effect when it is   *)
(* sent: the socket to the host is ordered.  The settings object of an     *)
(* event is a copy of the persisted settings taken when the event is       *)
(* delivered; a handler and the callbacks it creates share that object.    *)
(*                                                                         *)
(* Optional fields are <<>> (undefined) or <<v>>.  Texts are sequences of  *)
(* symbols.  delayToOpenUrl is kept in tenths of a second, so that 0.5 is  *)
(* the integer 5.                                                          *)
(***************************************************************************)
EXTENDS Integers, Sequences, FiniteSets, TLC

VARIABLES
    now,      \* Date.now(), in milliseconds
    store,    \* the settings the host persists for the key
    title,    \* the title the key shows, as last set by the plugin
    key,      \* the physical key: "up" or "down"
    presses,  \* the number of presses delivered so far
    appears,  \* the number of appearances delivered so far
    down,     \* the running onKeyDown handler: its position and settings object
    tasks,    \* the running fetch activities: onWillAppear runs and refresh callbacks
    up,       \* the latest onKeyUp run
    faults    \* the kinds of activity that ended in an unhandled rejection

vars == <<now, store, title, key, presses, appears, down, tasks, up, faults>>

\* ------------------------------------------------------------------ bounds

\* The events the host delivers to the key: appearances and presses together.
MaxEvents == 3
\* The ticks of the clock.
MaxTicks == 2
\* The longest hold of the release scenarios, in steps of HoldStepMs.
MaxHoldSteps == 104
\* The longest body of the formatting scenarios, in symbols.
MaxBody == 4

\* ------------------------------------------------------- program constants

DebounceMs == 500
BufferMs == 100
MsPerSecond == 1000

\* The clock of the event loop advances in steps of the refresh delay; the
\* release scenarios below step through durations by half the buffer.
TickMs == DebounceMs
HoldStepMs == BufferMs \div 2

\* ------------------------------------------------------------------- values

None == <<>>
Some(x) == <<x>>

Asking == <<"Asking...">>
NoIpAddress == <<"No IP Address">>

\* The body the endpoint answers with when it works: an address.
Ip1 == <<"1", ".", "2">>

\* What one fetch can end in: the promise rejects (connection failure); a
\* response arrives with the address; a response arrives that is no address,
\* a non-success status with an empty body.
Outcomes ==
    { [kind |-> "reject", ok |-> FALSE, body |-> <<>>],
      [kind |-> "response", ok |-> TRUE, body |-> Ip1],
      [kind |-> "response", ok |-> FALSE, body |-> <<>>] }

\* The thresholds of the property inspector, 0.5 s to 5.0 s in steps of 0.5 s,
\* in tenths of a second.
Delays == {5 * k : k \in 1..10}

NoOutcome == [kind |-> "none", ok |-> FALSE, body |-> <<>>]

NoSettings == [ip_addr |-> None, keyDownTimestamp |-> None, delayToOpenUrl |-> None]

\* --------------------------------------------------------------- formatting

\* Mutant: the replacement is not global, only the first "." is followed by a
\* line break.
RECURSIVE FormatFirstOnly(_)
FormatFirstOnly(s) ==
    IF s = <<>> THEN <<>>
    ELSE IF Head(s) = "." THEN <<".", "\n">> \o Tail(s)
    ELSE <<Head(s)>> \o FormatFirstOnly(Tail(s))

\* ipAddr.replace(/\./g, ".\n")
RECURSIVE Format(_)
Format(s) ==
    IF s = <<>> THEN <<>>
    ELSE IF Head(s) = "." THEN <<".", "\n">> \o Format(Tail(s))
    ELSE <<Head(s)>> \o Format(Tail(s))

\* `${settings.ip_addr ?? "No IP Address"}`
TitleOf(settings) ==
    IF settings.ip_addr = None THEN NoIpAddress ELSE settings.ip_addr[1]

\* ------------------------------------------------------------ classification

\* Mutant: only a missing threshold is unconfigured
\* (settings.delayToOpenUrl !== undefined).
ConfiguredIfPresent(settings) == settings.delayToOpenUrl # None

\* if (settings.delayToOpenUrl): undefined and 0 are falsy
Configured(settings) ==
    /\ settings.delayToOpenUrl # None
    /\ settings.delayToOpenUrl[1] # 0

\* settings.delayToOpenUrl * 1000, the delay being held in tenths of a second
ThresholdMs(delay) == (delay * MsPerSecond) \div 10

\* Mutant: a missing timestamp counts as timestamp 0 (keyDownTimestamp ?? 0).
DurationSinceEpoch(settings, keyUpTimestamp) ==
    IF settings.keyDownTimestamp # None
    THEN keyUpTimestamp - settings.keyDownTimestamp[1]
    ELSE keyUpTimestamp

\* settings.keyDownTimestamp ? (keyUpTimestamp - settings.keyDownTimestamp) : 0
Duration(settings, keyUpTimestamp) ==
    IF settings.keyDownTimestamp # None /\ settings.keyDownTimestamp[1] # 0
    THEN keyUpTimestamp - settings.keyDownTimestamp[1]
    ELSE 0

\* Mutant: the buffer is not subtracted.
IsHoldNoBuffer(duration, delay) == duration > ThresholdMs(delay)

\* Mutant: the comparison is not strict.
IsHoldInclusive(duration, delay) == duration - BufferMs >= ThresholdMs(delay)

\* duration - 100 > (settings.delayToOpenUrl * 1000)
IsHold(duration, delay) == duration - BufferMs > ThresholdMs(delay)

\* Mutant: the release persists a fresh object that carries the threshold
\* only, so that the address is lost with the timestamp.
ClearTimestampAndAddress(settings) ==
    [ip_addr |-> <<>>, keyDownTimestamp |-> <<>>,
     delayToOpenUrl |-> settings.delayToOpenUrl]

\* Mutant: the timestamp is left in the settings.
ClearTimestampForgotten(settings) == settings

\* settings.keyDownTimestamp = undefined
ClearTimestamp(settings) == [settings EXCEPT !.keyDownTimestamp = None]

\* ------------------------------------------------------------------ helpers

IdleDown == [pc |-> "idle", settings |-> NoSettings]
NoUp == [pc |-> "none", delivered |-> NoSettings, settings |-> NoSettings,
         at |-> 0, calls |-> <<>>]

TaskIds == 1..Len(tasks)

Remove(seq, i) == SubSeq(seq, 1, i - 1) \o SubSeq(seq, i + 1, Len(seq))

\* onKeyUp is suspended at `await ev.action.showOk()`
UpRunning == up.pc = "showOk"

\* A handler is between two host calls: the host delivers the key's events one
\* after the other, and no clock tick fits into such a gap.
SendPending ==
    \/ down.pc # "idle"
    \/ UpRunning
    \/ \E i \in TaskIds : tasks[i].pc = "title"

\* A timer has expired and its callback has not run yet.
TimerDue == \E i \in TaskIds : tasks[i].pc = "timer" /\ now >= tasks[i].due

\* ---------------------------------------------------------------------- Init

\* The plugin has connected; the key has never been shown or pressed, and its
\* threshold is unset or was set to 0.5 s in the property inspector.
Init ==
    /\ now = TickMs
    /\ store \in {[NoSettings EXCEPT !.delayToOpenUrl = d] :
                    d \in {None, Some(5)}}
    /\ title = None
    /\ key = "up"
    /\ presses = 0
    /\ appears = 0
    /\ down = IdleDown
    /\ tasks = <<>>
    /\ up = NoUp
    /\ faults = {}

\* ------------------------------------------------------------------- actions

\* Time passes; an expired timer runs before the clock moves on.  Only time
\* that somebody waits for is counted: the key is held, or a timer is pending.
Tick ==
    /\ now < TickMs * (MaxTicks + 1)
    /\ ~SendPending
    /\ ~TimerDue
    /\ (key = "down" \/ \E i \in TaskIds : tasks[i].pc = "timer")
    /\ now' = now + TickMs
    /\ UNCHANGED <<store, title, key, presses, appears, down, tasks, up, faults>>

\* onWillAppear, up to `await fetch(...)`.
WillAppear ==
    /\ appears + presses < MaxEvents
    /\ down.pc = "idle" /\ ~UpRunning
    /\ appears' = appears + 1
    /\ tasks' = Append(tasks, [kind |-> "appear", pc |-> "fetching",
                                settings |-> store, due |-> 0,
                                superseded |-> FALSE, outcome |-> NoOutcome])
    /\ UNCHANGED <<now, store, title, key, presses, down, up, faults>>

\* onKeyDown, up to `await ev.action.setTitle("Asking...")`.  A key is pressed
\* only after it has appeared.
KeyDown ==
    /\ key = "up"
    /\ appears > 0
    /\ appears + presses < MaxEvents
    /\ down.pc = "idle" /\ ~UpRunning
    /\ key' = "down"
    /\ presses' = presses + 1
    /\ title' = Some(Asking)
    /\ down' = [pc |-> "title", settings |-> store]
    /\ up' = NoUp
    /\ UNCHANGED <<now, store, appears, tasks, faults>>

\* onKeyDown: settings.keyDownTimestamp = Date.now(); await setSettings(settings)
KeyDownSave ==
    /\ down.pc = "title"
    /\ LET settings == [down.settings EXCEPT !.keyDownTimestamp = Some(now)]
       IN /\ store' = settings
          /\ down' = [pc |-> "saved", settings |-> settings]
    /\ UNCHANGED <<now, title, key, presses, appears, tasks, up, faults>>

\* Mutant: the refresh is armed without a delay (setTimeout(..., 0)).
KeyDownArmNoDelay ==
    /\ down.pc = "saved"
    /\ tasks' = Append(tasks, [kind |-> "refresh", pc |-> "timer",
                                settings |-> down.settings, due |-> now,
                                superseded |-> FALSE, outcome |-> NoOutcome])
    /\ down' = [pc |-> "idle", settings |-> NoSettings]
    /\ UNCHANGED <<now, store, title, key, presses, appears, up, faults>>

\* onKeyDown: setTimeout(async () => {...}, 500), and the handler returns.  No
\* timer is cleared: the refreshes armed earlier stay pending.  Those whose
\* delay has not expired yet are noted as superseded by this press.
KeyDownArm ==
    /\ down.pc = "saved"
    /\ LET older == [i \in TaskIds |->
                       IF /\ tasks[i].kind = "refresh"
                          /\ tasks[i].pc = "timer"
                          /\ now < tasks[i].due
                       THEN [tasks[i] EXCEPT !.superseded = TRUE]
                       ELSE tasks[i]]
       IN tasks' = Append(older, [kind |-> "refresh", pc |-> "timer",
                                   settings |-> down.settings,
                                   due |-> now + DebounceMs,
                                   superseded |-> FALSE, outcome |-> NoOutcome])
    /\ down' = IdleDown
    /\ UNCHANGED <<now, store, title, key, presses, appears, up, faults>>

\* The timer expires: the callback runs up to `await fetch(...)`.
TimerFire(i) ==
    /\ tasks[i].pc = "timer"
    /\ now >= tasks[i].due
    /\ tasks' = [tasks EXCEPT ![i].pc = "fetching"]
    /\ UNCHANGED <<now, store, title, key, presses, appears, down, up, faults>>

\* Mutant: an empty text is not assigned, the address stays as it was
\* (if (text) settings.ip_addr = text).
WithAddressUnlessEmpty(settings, outcome) ==
    IF outcome.body = <<>>
    THEN settings
    ELSE [settings EXCEPT !.ip_addr = Some(Format(outcome.body))]

\* The settings object after the fetch has answered with a response:
\* settings.ip_addr = ipAddr.replace(/\./g, ".\n")
WithAddress(settings, outcome) ==
    [settings EXCEPT !.ip_addr = Some(Format(outcome.body))]

\* Mutant: a rejection is caught and the persisted settings are reset.
AfterFetchReset(persisted, settings, outcome) ==
    IF outcome.kind = "reject" THEN NoSettings ELSE WithAddress(settings, outcome)

\* Mutant: a rejection is swallowed and the run goes on with an empty text.
AfterFetchSwallowed(persisted, settings, outcome) == WithAddress(settings, outcome)

\* What is persisted once the fetch has ended: after a rejection the throw
\* leaves the async function, nothing is assigned or sent and the persisted
\* settings stay; after a response, whatever its status and body, the settings
\* object with the formatted text is persisted as a whole.
AfterFetch(persisted, settings, outcome) ==
    IF outcome.kind = "reject" THEN persisted ELSE WithAddress(settings, outcome)

\* The fetch of task i ends with outcome o.  A rejection ends the handler or
\* callback: its promise rejects, with nobody to catch it.  After a response
\* the run goes on to `await ev.action.setSettings(settings)`.
FetchDone(i, o) ==
    /\ tasks[i].pc = "fetching"
    /\ store' = AfterFetch(store, tasks[i].settings, o)
    /\ IF o.kind = "reject"
       THEN /\ tasks' = Remove(tasks, i)
            /\ faults' = faults \cup {tasks[i].kind}
       ELSE /\ tasks' = [tasks EXCEPT ![i].pc = "title", ![i].outcome = o,
                                      ![i].settings = WithAddress(@, o)]
            /\ UNCHANGED faults
    /\ UNCHANGED <<now, title, key, presses, appears, down, up>>

\* Mutant: the callback also opens the URL when it updates the title.
SetTitleOpens(i) ==
    /\ tasks[i].pc = "title"
    /\ title' = Some(IF tasks[i].settings.ip_addr = None THEN <<"No IP Address">>
                     ELSE tasks[i].settings.ip_addr[1])
    /\ tasks' = Remove(tasks, i)
    /\ up' = [up EXCEPT !.calls = Append(@, "openUrl")]
    /\ UNCHANGED <<now, store, key, presses, appears, down, faults>>

\* Mutant: the callback ends after setSettings, the title is not updated.
SetTitleSkipped(i) ==
    /\ tasks[i].pc = "title"
    /\ tasks' = Remove(tasks, i)
    /\ UNCHANGED <<now, store, title, key, presses, appears, down, up, faults>>

\* setTitle(`${settings.ip_addr ?? "No IP Address"}`), and the run is over.
SetTitle(i) ==
    /\ tasks[i].pc = "title"
    /\ title' = Some(TitleOf(tasks[i].settings))
    /\ tasks' = Remove(tasks, i)
    /\ UNCHANGED <<now, store, key, presses, appears, down, up, faults>>

\* Mutant: a release is not classified while a refresh is under way.
VerdictUnlessRefreshing(settings, keyUpTimestamp) ==
    /\ tasks = <<>>
    /\ Configured(settings)
    /\ IsHold(Duration(settings, keyUpTimestamp), settings.delayToOpenUrl[1])

\* Mutant: an unset threshold falls back to the default of 0.5 s.
VerdictDefaultDelay(settings, keyUpTimestamp) ==
    IsHold(Duration(settings, keyUpTimestamp),
           IF Configured(settings) THEN settings.delayToOpenUrl[1] ELSE 5)

\* if (settings.delayToOpenUrl) { ... if (duration - 100 > ...) }: whether
\* the release opens the URL.
Verdict(settings, keyUpTimestamp) ==
    IF Configured(settings)
    THEN IsHold(Duration(settings, keyUpTimestamp), settings.delayToOpenUrl[1])
    ELSE FALSE

\* Mutant: the release cancels the refreshes that are still pending
\* (clearTimeout) before it classifies.
KeyUpCancels ==
    /\ key = "down"
    /\ down.pc = "idle"
    /\ key' = "up"
    /\ tasks' = SelectSeq(tasks, LAMBDA task : task.pc # "timer")
    /\ IF Verdict(store, now)
       THEN /\ up' = [pc |-> "showOk", delivered |-> store, settings |-> store,
                      at |-> now, calls |-> <<"openUrl", "showOk">>]
            /\ UNCHANGED store
       ELSE /\ up' = [pc |-> "done", delivered |-> store,
                      settings |-> ClearTimestamp(store),
                      at |-> now, calls |-> <<"setSettings">>]
            /\ store' = ClearTimestamp(store)
    /\ UNCHANGED <<now, title, presses, appears, down, faults>>

\* onKeyUp, from the delivery of the release to its first await: to the end of
\* the handler on the paths that make no call, to `await ev.action.showOk()`
\* on the path that opens the URL.
KeyUp ==
    /\ key = "down"
    /\ down.pc = "idle"
    /\ key' = "up"
    /\ IF Verdict(store, now)
       THEN /\ up' = [pc |-> "showOk", delivered |-> store, settings |-> store,
                      at |-> now, calls |-> <<"openUrl", "showOk">>]
            /\ UNCHANGED store
       ELSE /\ up' = [pc |-> "done", delivered |-> store,
                      settings |-> ClearTimestamp(store),
                      at |-> now, calls |-> <<"setSettings">>]
            /\ store' = ClearTimestamp(store)
    /\ UNCHANGED <<now, title, presses, appears, down, tasks, faults>>

\* onKeyUp after showOk: clear the timestamp, persist, return.
KeyUpFinish ==
    /\ UpRunning
    /\ LET settings == ClearTimestamp(up.settings)
       IN /\ store' = settings
          /\ up' = [up EXCEPT !.pc = "done", !.settings = settings,
                              !.calls = Append(up.calls, "setSettings")]
    /\ UNCHANGED <<now, title, key, presses, appears, down, tasks, faults>>

Next ==
    \/ Tick
    \/ WillAppear
    \/ KeyDown
    \/ KeyDownSave
    \/ KeyDownArm
    \/ \E i \in TaskIds : TimerFire(i)
    \/ \E i \in TaskIds : \E o \in Outcomes : FetchDone(i, o)
    \/ \E i \in TaskIds : SetTitle(i)
    \/ KeyUp
    \/ KeyUpFinish

Spec == Init /\ [][Next]_vars

\* What the scheduling of the plugin guarantees: time passes, an expired timer
\* runs its callback, and a handler or callback suspended at the await of a
\* call to the host (setTitle, setSettings, showOk) is resumed.  Nothing is
\* guaranteed about the user (appearances, presses, releases) and nothing
\* about the endpoint: the fetches are issued without a signal or a timeout
\* (lines 6 and 20), so an answer comes if and when the endpoint gives one.
ProgramFairness ==
    /\ WF_vars(Tick)
    /\ WF_vars(KeyDownSave)
    /\ WF_vars(KeyDownArm)
    /\ WF_vars(\E i \in TaskIds : TimerFire(i))
    /\ WF_vars(\E i \in TaskIds : SetTitle(i))
    /\ WF_vars(KeyUpFinish)

SpecLive == Spec /\ ProgramFairness

\* -------------------------------------------------------- release scenarios

\* A release is about to be delivered: the key is held, the press handler has
\* returned, and the persisted settings hold any threshold of the property
\* inspector or none, the timestamp of the press or none, and any hold time
\* up to MaxHoldSteps steps has passed.
InitRelease ==
    /\ now \in {TickMs + k * HoldStepMs : k \in 0..MaxHoldSteps}
    /\ store \in [ip_addr : {None, Some(Format(Ip1))},
                  keyDownTimestamp : {None, Some(TickMs)},
                  delayToOpenUrl : {None} \cup {Some(d) : d \in Delays}]
    /\ title = Some(Asking)
    /\ key = "down"
    /\ presses = 1
    /\ appears = 1
    /\ down = IdleDown
    /\ tasks = <<>>
    /\ up = NoUp
    /\ faults = {}

NextRelease ==
    \/ KeyUp
    \/ KeyUpFinish

SpecRelease == InitRelease /\ [][NextRelease]_vars

\* --------------------------------------------- release with a failing showOk

\* `await ev.action.showOk()` rejects (the host cannot be reached): the throw
\* leaves onKeyUp at line 40, lines 46 and 47 do not run, and the promise of
\* the handler rejects.
KeyUpShowOkFails ==
    /\ UpRunning
    /\ up' = [up EXCEPT !.pc = "failed"]
    /\ faults' = faults \cup {"release"}
    /\ UNCHANGED <<now, store, title, key, presses, appears, down, tasks>>

NextShowOk ==
    \/ KeyUp
    \/ KeyUpFinish
    \/ KeyUpShowOkFails

SpecShowOk == InitRelease /\ [][NextShowOk]_vars

\* ------------------------------------------------ release of foreign settings

\* Thresholds outside the documented range of 0.5 s to 5.0 s, in tenths of a
\* second: negative, zero, between 0 and 0.5 s, above 5.0 s.
OutOfRangeDelays == {-10, 0, 2, 60}

\* A release is delivered with settings the handlers of this run did not all
\* write: the threshold may be any number the host has stored, and the press
\* may have been delivered either to this run of the plugin (presses = 1,
\* timestamp TickMs) or to a run before the plugin was restarted (presses = 0,
\* timestamp HoldStepMs, before this run connected at TickMs).
InitDelivered ==
    /\ now \in {TickMs + k * HoldStepMs : k \in 0..MaxHoldSteps}
    /\ presses \in {0, 1}
    /\ store \in [ip_addr : {None},
                  keyDownTimestamp :
                      {None, Some(IF presses = 1 THEN TickMs ELSE HoldStepMs)},
                  delayToOpenUrl : {Some(d) : d \in OutOfRangeDelays \cup {5, 50}}]
    /\ title = IF presses = 1 THEN Some(Asking) ELSE None
    /\ key = "down"
    /\ appears = 1
    /\ down = IdleDown
    /\ tasks = <<>>
    /\ up = NoUp
    /\ faults = {}

SpecDelivered == InitDelivered /\ [][NextRelease]_vars

\* ----------------------------------------------------- formatting scenarios

\* The bodies a response can carry: every text of up to MaxBody symbols over a
\* digit, the period and the line break, and the address of the documentation.
Example == <<"203", ".", "0", ".", "113", ".", "42">>
Bodies ==
    UNION {[1..n -> {"1", ".", "\n"}] : n \in 0..MaxBody} \cup {Example}

\* One fetch is in flight, issued by an appearance or by the refresh callback
\* of a press that has been released.
InitFormat ==
    /\ now = TickMs
    /\ store = NoSettings
    /\ title \in {None, Some(Asking)}
    /\ key = "up"
    /\ presses = 1
    /\ appears = 1
    /\ down = IdleDown
    /\ \E kind \in {"appear", "refresh"} :
          tasks = <<[kind |-> kind, pc |-> "fetching",
                     settings |-> IF kind = "refresh"
                                  THEN [NoSettings EXCEPT
                                            !.keyDownTimestamp = Some(TickMs)]
                                  ELSE NoSettings,
                     due |-> IF kind = "refresh" THEN TickMs ELSE 0,
                     superseded |-> FALSE, outcome |-> NoOutcome]>>
    /\ up = NoUp
    /\ faults = {}

NextFormat ==
    \/ \E i \in TaskIds : \E b \in Bodies :
          FetchDone(i, [kind |-> "response", ok |-> TRUE, body |-> b])
    \/ \E i \in TaskIds : SetTitle(i)

SpecFormat == InitFormat /\ [][NextFormat]_vars

\* ------------------------------------------------------- ordering scenarios

\* The public address changes over time: a fetch issued at time t is answered,
\* if it is answered, with the address of time t.
AddrAt(t) == <<"10", ".", ToString(t)>>

\* The times at which a fetch can be issued
IssueTimes == {0} \cup {TickMs * k : k \in 1..(MaxTicks + 2)}

\* The key has appeared and shows the address fetched then, at time 0.
InitOrder ==
    /\ now = TickMs
    /\ \E d \in {None, Some(5)} :
          store = [ip_addr |-> Some(Format(AddrAt(0))),
                   keyDownTimestamp |-> None, delayToOpenUrl |-> d]
    /\ title = Some(Format(AddrAt(0)))
    /\ key = "up"
    /\ presses = 0
    /\ appears = 1
    /\ down = IdleDown
    /\ tasks = <<>>
    /\ up = NoUp
    /\ faults = {}

\* Presses, releases and refreshes; the fetch of a refresh is issued when its
\* timer fires, at tasks[i].due.
NextOrder ==
    \/ Tick
    \/ KeyDown
    \/ KeyDownSave
    \/ KeyDownArm
    \/ \E i \in TaskIds : TimerFire(i)
    \/ \E i \in TaskIds :
          \E o \in {[kind |-> "reject", ok |-> FALSE, body |-> <<>>],
                    [kind |-> "response", ok |-> TRUE,
                     body |-> AddrAt(tasks[i].due)]} : FetchDone(i, o)
    \/ \E i \in TaskIds : SetTitle(i)
    \/ KeyUp
    \/ KeyUpFinish

SpecOrder == InitOrder /\ [][NextOrder]_vars

\* The ordering scenarios with the scheduling the plugin guarantees
SpecOrderLive == SpecOrder /\ ProgramFairness

\* ------------------------------------------------------------------- claims

\* How often a release made the host call c
Calls(c) == Cardinality({i \in DOMAIN up.calls : up.calls[i] = c})

\* A release has been delivered and its handler has run to its first await
Released == up.pc # "none"

\* The release was delivered with a threshold of T tenths of a second and the
\* timestamp of a press that lies d milliseconds back
ReleasedWith(T, d) ==
    /\ Released
    /\ up.delivered.delayToOpenUrl = Some(T)
    /\ up.delivered.keyDownTimestamp # None
    /\ up.at - up.delivered.keyDownTimestamp[1] = d

Durations == {k * HoldStepMs : k \in 0..MaxHoldSteps}

\* C1: with a threshold T configured, a release whose measured duration d (the
\* release time minus the timestamp delivered with the release) is below
\* T*1000 + 100 ms makes no open-URL call and no success-indicator call.
C1_TapBelowThreshold ==
    \A T \in Delays : \A d \in Durations :
        (ReleasedWith(T, d) /\ d < T * 100 + 100)
            => (Calls("openUrl") = 0 /\ Calls("showOk") = 0)

\* C1 witness: threshold 0.5 s, released after 550 ms, handler over, no call
\* but the persisting of the settings.
C1_Witness ==
    /\ ReleasedWith(5, 550)
    /\ up.pc = "done"
    /\ up.calls = <<"setSettings">>

\* C2 as stated: with a threshold T configured, a release whose measured
\* duration d is at least T*1000 + 100 ms, the boundary included, makes exactly
\* one open-URL call and exactly one success-indicator call.
C2_HoldAtOrAboveThreshold ==
    \A T \in Delays : \A d \in Durations :
        (ReleasedWith(T, d) /\ d >= T * 100 + 100)
            => (Calls("openUrl") = 1 /\ Calls("showOk") = 1)

C10_NoThresholdOnlyCleanup ==
    (Released /\ up.delivered.delayToOpenUrl = None) =>
        /\ up.pc = "done"
        /\ up.calls = <<"setSettings">>
        /\ store = [up.delivered EXCEPT !.keyDownTimestamp = None]
        /\ title = Some(Asking)
        /\ tasks = <<>>

\* C10 witness: no threshold, the timestamp of the press delivered, released
\* after 5 s.
C10_Witness ==
    /\ Released
    /\ up.delivered.delayToOpenUrl = None
    /\ up.delivered.keyDownTimestamp # None
    /\ up.at - up.delivered.keyDownTimestamp[1] = 5000
    /\ store.keyDownTimestamp = None

\* A refresh callback's fetch is rejected in this step
RefreshRejected ==
    \E i \in TaskIds :
        /\ tasks[i].kind = "refresh"
        /\ tasks[i].pc = "fetching"
        /\ tasks' = Remove(tasks, i)

\* The fetch of task i is answered in this step with a response that is no
\* address: a non-success status, or an empty body
InvalidResponse(i) ==
    /\ tasks[i].pc = "fetching"
    /\ i <= Len(tasks')
    /\ tasks'[i].pc = "title"
    /\ (~tasks'[i].outcome.ok \/ tasks'[i].outcome.body = <<>>)

\* C4: in the step in which a release handler completes, the settings it
\* persists have no keyDownTimestamp, whatever the timestamp delivered with
\* the release and whichever branch was taken.
C4_ReleaseClearsTimestamp ==
    [][(up.pc # "done" /\ up'.pc = "done") =>
          /\ store' = up'.settings
          /\ store'.keyDownTimestamp = None]_vars

\* C4 witness: a release that opened the URL has completed, it was delivered
\* with a timestamp, and the persisted settings have none.
C4_Witness ==
    /\ up.pc = "done"
    /\ Calls("openUrl") = 1
    /\ up.delivered.keyDownTimestamp # None
    /\ store.keyDownTimestamp = None

\* C5 as stated: the persisted keyDownTimestamp is set only between a press
\* and the completion of its release; while the key is up and no release
\* handler is running, it is absent.
C5_TimestampOnlyWhilePressed ==
    (key = "up" /\ ~UpRunning) => store.keyDownTimestamp = None

\* C6 as stated: a refresh that a later press superseded before its delay
\* expired issues no fetch, so that presses within one debounce delay end in at
\* most one fetch.
C6_SupersededNeverFetches ==
    \A i \in TaskIds :
        (tasks[i].kind = "refresh" /\ tasks[i].superseded) => tasks[i].pc = "timer"

\* C7: a step in which the fetch of a refresh is rejected leaves the persisted
\* ip_addr as it was, absent or set.
C7_RejectedRefreshKeepsValue ==
    [][RefreshRejected => store'.ip_addr = store.ip_addr]_vars

\* C7 witness: the appearance fetched the address and showed it, then the one
\* press replaced the title and its refresh ended in a rejection: the persisted
\* ip_addr is still the address of the appearance.
C7_Witness ==
    /\ faults = {"refresh"}
    /\ appears = 1 /\ presses = 1
    /\ tasks = <<>>
    /\ title = Some(Asking)
    /\ store.ip_addr = Some(Format(Ip1))

\* C8 as stated: a fetch answered with a non-success status or an empty body
\* does not overwrite the persisted ip_addr, on appearance or on refresh.
C8_InvalidResponseKeepsValue ==
    [][\A i \in TaskIds : InvalidResponse(i) => store'.ip_addr = store.ip_addr]_vars

\* C9 as stated: no handler and no callback ends in an unhandled rejection.
C9_NoUnhandledRejection == faults = {}

\* How often the symbol c occurs in the text s
Occurrences(s, c) == Cardinality({i \in DOMAIN s : s[i] = c})

\* The text s without the line break that follows each period
RECURSIVE WithoutBreaks(_)
WithoutBreaks(s) ==
    IF s = <<>> THEN <<>>
    ELSE IF Head(s) = "." /\ Len(s) >= 2 /\ s[2] = "\n"
         THEN <<".">> \o WithoutBreaks(SubSeq(s, 3, Len(s)))
         ELSE <<Head(s)>> \o WithoutBreaks(Tail(s))

\* C11: the text an appearance or a refresh persists for a fetched body is the
\* body with one line break after every period and nothing else changed:
\* without those line breaks it is the body again, it has as many more line
\* breaks as the body has periods, and each of its periods is followed by one;
\* the title shown afterwards is that text.
C11_FormatInsertsBreaks ==
    /\ \A i \in TaskIds :
          tasks[i].pc = "title" =>
              LET body == tasks[i].outcome.body
                  text == tasks[i].settings.ip_addr[1]
              IN /\ store.ip_addr = Some(text)
                 /\ WithoutBreaks(text) = body
                 /\ Occurrences(text, "\n") =
                        Occurrences(body, "\n") + Occurrences(body, ".")
                 /\ \A k \in DOMAIN text :
                        text[k] = "." => (k < Len(text) /\ text[k + 1] = "\n")
    /\ tasks = <<>> => title = store.ip_addr

\* C11 witness: an appearance has fetched "203.0.113.42" and shows it with a
\* line break after each of the three periods.
C11_Witness ==
    /\ tasks = <<>>
    /\ store.keyDownTimestamp = None
    /\ title = Some(<<"203", ".", "\n", "0", ".", "\n", "113", ".", "\n", "42">>)
    /\ store.ip_addr = title

\* When the fetch whose address the settings hold was issued
IssuedAt(settings) ==
    CHOOSE t \in IssueTimes : settings.ip_addr = Some(Format(AddrAt(t)))

\* The fetch of task i is answered in this step.
Answered(i) ==
    /\ i \in TaskIds /\ tasks[i].pc = "fetching"
    /\ Len(tasks') = Len(tasks) /\ tasks'[i].pc = "title"

\* C12: the persisted address is replaced monotonically: when an answered fetch
\* writes the persisted address, the address it replaces is not the result of
\* a fetch that was issued later.
C12_NewestFetchWins ==
    [][\A i \in TaskIds :
          Answered(i) => IssuedAt(store') >= IssuedAt(store)]_vars

\* The threshold T, in tenths of a second, brought into the documented range
Clamped(T) == IF T < 5 THEN 5 ELSE IF T > 50 THEN 50 ELSE T

\* The duration of the delivered release, 0 without a timestamp
DeliveredDuration ==
    IF up.delivered.keyDownTimestamp = None THEN 0
    ELSE up.at - up.delivered.keyDownTimestamp[1]

\* C13: the threshold a release is compared against lies within 0.5 s and
\* 5.0 s: a release delivered with any threshold opens the URL only if its
\* duration exceeds the threshold brought into that range (an out-of-range
\* threshold is clamped, or rejected and then opens nothing).
C13_ThresholdInRange ==
    (Released /\ up.delivered.delayToOpenUrl # None) =>
        (Calls("openUrl") = 1 =>
            DeliveredDuration - BufferMs >
                Clamped(up.delivered.delayToOpenUrl[1]) * 100)

\* C14: a release delivered without a timestamp and with a threshold of the
\* documented range is measured as 0 ms: its handler runs to its end, makes no
\* call but the persisting of the settings, and persists the delivered
\* settings with the timestamp absent.
C14_NoTimestampIsTap ==
    \A T \in Delays :
        (Released /\ up.delivered.keyDownTimestamp = None
                  /\ up.delivered.delayToOpenUrl = Some(T))
            => /\ up.pc = "done"
               /\ up.calls = <<"setSettings">>
               /\ store = up.delivered

\* C14 witness: the shortest threshold, no timestamp, and a release more than
\* five seconds after the plugin connected: still a tap.
C14_Witness ==
    /\ up.pc = "done"
    /\ up.delivered.keyDownTimestamp = None
    /\ up.delivered.delayToOpenUrl = Some(5)
    /\ up.at >= TickMs + 50 * 100
    /\ store.keyDownTimestamp = None

\* C15: a release delivered with a timestamp older than this run of the
\* plugin (written before the plugin connected, e.g. the host restarted while
\* the key was held) is measured as 0 ms and, whatever threshold of the
\* documented range is configured, never opens the URL.
C15_StaleTimestampIsTap ==
    (Released /\ up.delivered.keyDownTimestamp # None
              /\ up.delivered.keyDownTimestamp[1] < TickMs
              /\ up.delivered.delayToOpenUrl \in {Some(T) : T \in Delays})
        => (Calls("openUrl") = 0 /\ Calls("showOk") = 0)

\* A refresh is pending or in flight, or one has failed
RefreshUnsettled ==
    \/ "refresh" \in faults
    \/ \E i \in TaskIds :
          tasks[i].kind = "refresh" /\ tasks[i].pc \in {"timer", "fetching"}

\* The timer of a refresh fires in this step, or its fetch is rejected
RefreshStartsOrFails ==
    \E i \in TaskIds :
        /\ tasks[i].kind = "refresh"
        /\ \/ tasks[i].pc = "timer" /\ Len(tasks') = Len(tasks)
                                    /\ tasks'[i].pc = "fetching"
           \/ tasks[i].pc = "fetching" /\ tasks' = Remove(tasks, i)

\* The release handler has decided as onKeyUp decides from the settings
\* delivered with the release and the release time alone, and where it has
\* completed, its last call persisted settings without a timestamp.
ReleaseAsDelivered ==
    /\ Calls("openUrl") = 1 <=>
          /\ up.delivered.delayToOpenUrl # None
          /\ DeliveredDuration - BufferMs >
                 up.delivered.delayToOpenUrl[1] * 100
    /\ Calls("showOk") = Calls("openUrl")
    /\ up.pc = "done" =>
          /\ up.calls[Len(up.calls)] = "setSettings"
          /\ up.settings = [up.delivered EXCEPT !.keyDownTimestamp = None]

OnlyAppearanceFailed ==
    /\ appears = 1 /\ presses = 0
    /\ tasks = <<>>
    /\ faults = {"appear"}

\* C18: when the fetch of an appearance fails, the key shows the fallback text
\* "No IP Address" (no address is cached yet) instead of being left without a
\* title update.
C18_FailedAppearanceShowsFallback ==
    OnlyAppearanceFailed => title = Some(NoIpAddress)

\* C19: an appearance delivered with settings that already hold an address
\* shows that address and issues no fetch: no fetch of an appearance is in
\* flight whose delivered settings hold a text that is not empty.
C19_CachedAppearanceDoesNotFetch ==
    \A i \in TaskIds :
        (tasks[i].kind = "appear" /\ tasks[i].pc = "fetching")
            => tasks[i].settings.ip_addr \in {None, Some(<<>>)}

\* A refresh has persisted its address and its title update is still to come
RefreshBetweenWrites(i) ==
    i \in TaskIds /\ tasks[i].kind = "refresh" /\ tasks[i].pc = "title"

\* Every fetch has been answered with a response and every handler and
\* callback has run to its end
AllSettled ==
    /\ presses > 0
    /\ tasks = <<>>
    /\ faults = {}
    /\ down.pc = "idle"
    /\ ~UpRunning

\* C20: a refresh updates the persisted settings and the title atomically: the
\* only step that follows the persisting of its address is its own title
\* update, and once every fetch has been answered and every handler has run to
\* its end, the title shows the persisted address.
C20_RefreshWritesAtomically ==
    [][/\ \A i \in TaskIds :
             RefreshBetweenWrites(i) =>
                 (tasks' = Remove(tasks, i)
                      /\ title' = Some(TitleOf(tasks[i].settings)))
       /\ AllSettled' => title' = Some(TitleOf(store'))]_vars

\* The fetch of an appearance or of a refresh is in flight
FetchInFlight == \E i \in TaskIds : tasks[i].pc = "fetching"

Quiet ==
    /\ tasks = <<>>
    /\ down.pc = "idle"
    /\ ~UpRunning

\* C22: after a press whose refresh fetch failed the key does not stay on
\* "Asking...": once the handlers of the one press and its refresh have run to
\* their end, the title is again the address shown before the press.
C22_FailedRefreshRestoresTitle ==
    (Quiet /\ presses = 1 /\ faults = {"refresh"})
        => title = Some(Format(AddrAt(0)))

\* In the ordering scenarios every task is the refresh of a press; while none
\* has run to its end, the last one belongs to the latest press and its
\* settings object holds the timestamp that press recorded.
OwnPressKnown == presses >= 1 /\ Len(tasks) = presses
OwnTimestamp == tasks[Len(tasks)].settings.keyDownTimestamp

\* C23: a release is classified with the timestamp its own press recorded,
\* never with one of an earlier press: the timestamp delivered with the release
\* is that of the latest press, and the URL is opened only if the time since
\* that press exceeds the threshold by more than the buffer.
C23_OwnPressTimestamp ==
    (Released /\ OwnPressKnown) =>
        /\ up.delivered.keyDownTimestamp = OwnTimestamp
        /\ Calls("openUrl") = 1 =>
               (up.at - OwnTimestamp[1]) - BufferMs >
                   up.delivered.delayToOpenUrl[1] * 100

\* The timer of the refresh task i fires in this step: its fetch is issued.
RefreshIssued(i) ==
    /\ i \in TaskIds /\ tasks[i].kind = "refresh" /\ tasks[i].pc = "timer"
    /\ Len(tasks') = Len(tasks) /\ tasks'[i].pc = "fetching"

\* C24: a press first shows "Asking...", then records the time of the press
\* and persists it, and only then arms the refresh, with which the handler
\* returns; the fetch of the press is not issued before 500 ms have passed
\* since the press.
C24_PressThenDelayedFetch ==
    [][/\ (down.pc = "idle" /\ down'.pc # "idle") =>
              (title' = Some(Asking) /\ store' = store /\ tasks' = tasks)
       /\ (down.pc = "title" /\ down'.pc # "title") =>
              /\ down'.pc = "saved"
              /\ store' = [down.settings EXCEPT !.keyDownTimestamp = Some(now)]
              /\ tasks' = tasks
       /\ Len(tasks') > Len(tasks) =>
              /\ down.pc = "saved" /\ down'.pc = "idle"
              /\ tasks'[Len(tasks')].pc = "timer"
              /\ tasks'[Len(tasks')].settings.keyDownTimestamp = Some(now)
       /\ \A i \in TaskIds :
              RefreshIssued(i) =>
                  now >= tasks[i].settings.keyDownTimestamp[1] + DebounceMs]_vars

\* C24 witness: the key is still held 500 ms after the press, the handler of
\* the press has long returned, and the fetch of the press has just been
\* issued.
C24_Witness ==
    /\ presses = 1 /\ key = "down" /\ down.pc = "idle"
    /\ Len(tasks) = 1 /\ tasks[1].pc = "fetching"
    /\ tasks[1].settings.keyDownTimestamp = Some(TickMs)
    /\ now = TickMs + DebounceMs
    /\ title = Some(Asking)

\* The refresh fetch issued at time t has been answered with the address of
\* that time, and the title update of its callback is still to come.
RefreshAnswered(t) ==
    \E i \in TaskIds :
        /\ tasks[i].kind = "refresh" /\ tasks[i].pc = "title"
        /\ tasks[i].due = t

\* The clock values of the scenarios
ClockTimes == {TickMs * k : k \in 1..(MaxTicks + 1)}

\* C25: when the refresh fetch of a press succeeds, the persisted address
\* becomes the formatted result of that fetch in the step in which the fetch
\* is answered, and the title, "Asking..." since the press, eventually becomes
\* that formatted result too, whether the key has been released before the
\* delay expired or is still held.
C25_SuccessfulRefreshShows ==
    /\ [][\A i \in TaskIds :
             (Answered(i) /\ tasks'[i].outcome.kind = "response") =>
                 store'.ip_addr = Some(Format(tasks'[i].outcome.body))]_vars
    /\ \A t \in ClockTimes :
           RefreshAnswered(t) ~> (title = Some(Format(AddrAt(t))))

\* C25 witness: the key was pressed and released at once, the refresh fetch
\* was issued 500 ms later and answered, and title and persisted address are
\* its formatted result.
C25_Witness ==
    /\ presses = 1 /\ tasks = <<>> /\ faults = {}
    /\ up.pc = "done" /\ up.at = TickMs
    /\ title = Some(Format(AddrAt(TickMs + DebounceMs)))
    /\ store.ip_addr = title

\* The refreshes whose timer is pending, and all refreshes that have not run
\* to their end
PendingTimers == {i \in TaskIds : tasks[i].pc = "timer"}
Refreshes == {i \in TaskIds : tasks[i].kind = "refresh"}

C27_CleanupAfterFailedShowOk ==
    (Released /\ ~UpRunning) =>
        /\ up.calls[Len(up.calls)] = "setSettings"
        /\ store.keyDownTimestamp = None

\* A step of the release handler: the delivery of the release, or the
\* continuation after showOk
ReleaseStep == up' # up /\ up'.pc # "none"

\* C28: a release does nothing to the settings but the cleanup: the steps of
\* its handler change neither the title nor the fetches and timers under way;
\* the settings it works on are those delivered with the release; until it
\* persists, the persisted settings stay, and what it persists are the
\* delivered settings with the timestamp absent, address and threshold as
\* delivered.
C28_ReleaseOnlyClearsTimestamp ==
    [][ReleaseStep =>
          /\ title' = title
          /\ tasks' = tasks
          /\ up'.delivered = (IF up.pc = "none" THEN store ELSE up.delivered)
          /\ IF up'.pc = "done"
             THEN /\ store'.keyDownTimestamp = None
                  /\ store'.ip_addr = up'.delivered.ip_addr
                  /\ store'.delayToOpenUrl = up'.delivered.delayToOpenUrl
             ELSE store' = store]_vars

\* C28 witness: a release that opened the URL has completed while the refresh
\* of its press is still in flight: the title is still "Asking...", the address
\* of the appearance and the threshold are persisted as delivered, the
\* timestamp is gone.
C28_Witness ==
    /\ up.pc = "done" /\ Calls("openUrl") = 1
    /\ title = Some(Asking)
    /\ Len(tasks) = 1 /\ tasks[1].pc = "fetching"
    /\ up.delivered.ip_addr = Some(Format(Ip1))
    /\ store = [up.delivered EXCEPT !.keyDownTimestamp = None]

\* C29: the completion of a fetch changes only the address in the persisted
\* settings: in the step in which an answered fetch is persisted, the
\* persisted timestamp and threshold stay what they were just before.
C29_FetchWritesOnlyAddress ==
    [][\A i \in TaskIds :
          Answered(i) =>
              /\ store'.keyDownTimestamp = store.keyDownTimestamp
              /\ store'.delayToOpenUrl = store.delayToOpenUrl]_vars

\* C30: the URL is opened only by a release: the calls of a release are
\* recorded from its delivery until the next press; in that record the URL is
\* opened at most once and the success indicator requested exactly as often;
\* the count of open-URL calls grows only in the step that delivers a release,
\* and the record changes only by a step of the release handler or by the
\* next press, which starts it anew.
C30_OnlyReleaseOpensUrl ==
    [][/\ Calls("openUrl")' <= 1
       /\ Calls("showOk")' = Calls("openUrl")'
       /\ Calls("openUrl")' > Calls("openUrl") =>
              (key = "down" /\ key' = "up" /\ up.pc = "none")
       /\ up'.calls # up.calls =>
              (ReleaseStep \/ (presses' = presses + 1 /\ up' = NoUp))]_vars

\* C30 witness: the handler of the one release has opened the URL and waits
\* for the success indicator.
C30_Witness ==
    /\ presses = 1 /\ key = "up"
    /\ up.pc = "showOk"
    /\ up.calls = <<"openUrl", "showOk">>

\* The verdict as a function of the threshold and the timestamp delivered
\* with the release and of the release time, and of nothing else
HoldBy(delay, timestamp, at) ==
    /\ delay # None
    /\ delay[1] # 0
    /\ (IF timestamp = None \/ timestamp = Some(0) THEN 0 ELSE at - timestamp[1])
           - BufferMs > delay[1] * 100

\* C31: the verdict of a release is a function of the threshold and the
\* timestamp delivered with it and of the release time alone: whatever the
\* persisted address, the title and the refreshes under way, the release opens
\* the URL exactly if that function of the three values says so.
C31_VerdictOfThreeValues ==
    Released =>
        ((Calls("openUrl") = 1) <=>
            HoldBy(up.delivered.delayToOpenUrl,
                   up.delivered.keyDownTimestamp, up.at))

\* C31 witness: a release delivered with a timestamp that lies a second back
\* opens the URL, although a refresh has replaced the address and the title
\* meanwhile and another refresh is still under way.
C31_Witness ==
    /\ Calls("openUrl") = 1
    /\ up.delivered.keyDownTimestamp = Some(TickMs)
    /\ up.at = 3 * TickMs
    /\ up.delivered.ip_addr = Some(Format(AddrAt(2 * TickMs)))
    /\ title = Some(Format(AddrAt(2 * TickMs)))
    /\ tasks # <<>>

\* C32: a threshold of 0 is handled like an absent one: whatever the duration
\* of the press, the release is not classified, makes no call but the
\* persisting of the settings, and persists the delivered settings with the
\* timestamp absent.
C32_ZeroThresholdUnconfigured ==
    (Released /\ up.delivered.delayToOpenUrl = Some(0))
        => /\ up.pc = "done"
           /\ up.calls = <<"setSettings">>
           /\ store = [up.delivered EXCEPT !.keyDownTimestamp = None]

\* C32 witness: threshold 0, released more than five seconds after the
\* press: no URL opened, the handler is over.
C32_Witness ==
    /\ up.pc = "done"
    /\ up.delivered.delayToOpenUrl = Some(0)
    /\ up.delivered.keyDownTimestamp = Some(TickMs)
    /\ up.at - TickMs >= 50 * 100
    /\ Calls("openUrl") = 0

\* The texts a completed fetch can have produced.
FetchedTexts == {Format(o.body) : o \in {r \in Outcomes : r.kind = "response"}}

====
